---- MODULE Spec2Model ----
(***************************************************************************)
(* Model of the ePDG infrastructure wrappers:                              *)
(*   - database.SQLiteDB : one sql.DB limited to a single connection,      *)
(*                         every method guarded by the mutex s.mu          *)
(*   - database.MySqlDB  : a pooled sql.DB without a guard                 *)
(*   - logger            : the process-wide *zap.SugaredLogger             *)
(* Three specifications share the module, one per component; the          *)
(* variables of the other components stay at their initial values.         *)
(***************************************************************************)
EXTENDS Naturals, Integers, FiniteSets, Sequences, TLC

VARIABLES
    \* ---- SQLiteDB ----
    shandle,       \* "absent" | "present": NewSQLiteDB has returned a *SQLiteDB
    sdb,           \* the field s.db: NilRef | Ref
    spool,         \* the sql.DB behind s.db: "unopened" | "open" | "closed"
    mu,            \* the holder of s.mu, NoCaller when unlocked
    held,          \* the single pooled connection: <<>> when free, else <<owner>>,
                   \* the caller whose unfinished Tx / Rows / Row keeps it
    pc,            \* pc[c]: position of caller c inside a method
    op,            \* op[c]: the method caller c is in / was last in
    ctx,           \* ctx[c]: "background" | "cancellable"
    ret,           \* ret[c]: the value the method returns, set before the deferred unlock runs
    closeReturned, \* some Close call has returned
    closeCalls,    \* number of times the driver's Close ran on the sql.DB
    closeErr,      \* the first Close returned an error
    ctorRet,       \* NewSQLiteDB: "none" | "ok" | "openerr" | "pingerr" | "pragmaerr"
    sleaked,       \* sql.DB objects opened by NewSQLiteDB and dropped without Close
    \* ---- MySqlDB ----
    mhandle,       \* "absent" | "present"
    mdb,           \* the field m.db: NilRef | Ref
    mpool,         \* the sql.DB behind m.db: "unopened" | "open" | "closed"
    minUse,        \* connections checked out by unfinished Rows / Row / Tx / Stmt use
    mlast,         \* the last method called on the handle
    mret,          \* what it returned
    mleaked,       \* sql.DB objects opened by NewMySqlDB and dropped without Close
    mopens,        \* number of NewMySqlDB calls made
    \* ---- logger ----
    globalLogger,  \* the package variable globalLogger: NilLogger or an instance
    nextId,        \* identity of the next instance zap.New will build
    lastOp,        \* "none" | "Init" | "Logger" | "Log"
    lastErr,       \* the last Init (explicit or lazy) returned an error
    lastRet,       \* what the last Logger() returned
    lastLazy,      \* the last Logger() ran the default Init
    lastSev,       \* severity of the last leveled call
    lastSinks,     \* sinks the last leveled call wrote a record to
    outcome        \* how the last call ended: "returned" | "panic" | "nilpanic" | "exit"

svars == <<shandle, sdb, spool, mu, held, pc, op, ctx, ret,
           closeReturned, closeCalls, closeErr, ctorRet, sleaked>>
mvars == <<mhandle, mdb, mpool, minUse, mlast, mret, mleaked, mopens>>
lvars == <<globalLogger, nextId, lastOp, lastErr, lastRet, lastLazy,
           lastSev, lastSinks, outcome>>
vars == <<svars, mvars, lvars>>

\* ------------------------------------------------------------------ bounds
NumCallers == 2      \* goroutines calling one *SQLiteDB
MaxOpens == 2        \* calls of NewMySqlDB followed
MaxInstances == 2    \* loggers built by Init

Callers == 1..NumCallers
NoCaller == 0

NilRef == "nil"
Ref == "ref"

\* ================================================================ SQLiteDB

\* db.SetMaxOpenConns(1): the pool owns this many connections
SQLiteMaxOpenConns == 1

\* variant: the test of s.db left out
ConnectedAlways(d) == TRUE
\* `s.db == nil` / `s.db != nil`
Connected(d) == d # NilRef

\* variant: no mutual exclusion
CanLockAlways(m) == TRUE
\* s.mu.Lock() goes through only when nobody holds the mutex
CanLock(m) == m = NoCaller

\* variant: a return path without the unlock
UnlockedKeep(m) == m
\* the deferred s.mu.Unlock()
Unlocked(m) == NoCaller

\* variant: Close without `s.db = nil`
DbAfterCloseKeep == Ref
\* `s.db = nil` in Close
DbAfterClose == NilRef

\* what a method returns when s.db is nil
NotConnectedRet(o) ==
    CASE o = "Close"    -> "ok"
      [] o = "QueryRow" -> "nilrow"
      [] OTHER          -> "notconnected"

\* connections a Rows / Row / Tx returned to the callers keep checked out
InUse(h) == IF Len(h) = 0 THEN 0 ELSE 1

\* what a finished driver call leaves checked out of the pool
HeldAfter(c, o, ok) ==
    IF ok /\ o \in {"Query", "QueryRow", "BeginTx"} THEN <<c>> ELSE <<>>

\* the value handed back by the driver call
DriverRet(o, ok) ==
    IF o = "QueryRow" THEN (IF ok THEN "row" ELSE "rowerr")
    ELSE (IF ok THEN "ok" ELSE "err")

\* the state before any constructor has run and before any logger call
NilLogger == [id |-> 0]

InitState ==
    /\ shandle = "absent"
    /\ sdb = NilRef
    /\ spool = "unopened"
    /\ mu = NoCaller
    /\ held = <<>>
    /\ pc = [c \in Callers |-> "idle"]
    /\ op = [c \in Callers |-> "none"]
    /\ ctx = [c \in Callers |-> "background"]
    /\ ret = [c \in Callers |-> "none"]
    /\ closeReturned = FALSE
    /\ closeCalls = 0
    /\ closeErr = FALSE
    /\ ctorRet = "none"
    /\ sleaked = 0
    /\ mhandle = "absent"
    /\ mdb = NilRef
    /\ mpool = "unopened"
    /\ minUse = 0
    /\ mlast = "none"
    /\ mret = "none"
    /\ mleaked = 0
    /\ mopens = 0
    /\ globalLogger = NilLogger
    /\ nextId = 1
    /\ lastOp = "none"
    /\ lastErr = FALSE
    /\ lastRet = NilLogger
    /\ lastLazy = FALSE
    /\ lastSev = "none"
    /\ lastSinks = {}
    /\ outcome = "returned"

\* NewSQLiteDB(dbPath): sql.Open, the pool limits, Ping, the PRAGMA, the handle.
\* None of the error returns closes the sql.DB that sql.Open handed out.
\* One call is followed: the one that makes, or fails to make, the handle.
NewSQLiteDB(openOk, pingOk, pragmaOk) ==
    /\ shandle = "absent"
    /\ ctorRet = "none"
    /\ IF ~openOk
         THEN /\ ctorRet' = "openerr"
              /\ UNCHANGED <<shandle, sdb, spool, sleaked>>
         ELSE IF ~pingOk
           THEN /\ ctorRet' = "pingerr"
                /\ sleaked' = sleaked + 1
                /\ UNCHANGED <<shandle, sdb, spool>>
           ELSE IF ~pragmaOk
             THEN /\ ctorRet' = "pragmaerr"
                  /\ sleaked' = sleaked + 1
                  /\ UNCHANGED <<shandle, sdb, spool>>
             ELSE /\ ctorRet' = "ok"
                  /\ shandle' = "present"
                  /\ sdb' = Ref
                  /\ spool' = "open"
                  /\ UNCHANGED sleaked
    /\ UNCHANGED <<mu, held, pc, op, ctx, ret, closeReturned, closeCalls, closeErr>>
    /\ UNCHANGED <<mvars, lvars>>

\* entry of a method: the caller arrives at s.mu.Lock()
Enter(c, o, k) ==
    /\ shandle = "present"
    /\ pc[c] = "idle"
    /\ pc' = [pc EXCEPT ![c] = "lock"]
    /\ op' = [op EXCEPT ![c] = o]
    /\ ctx' = [ctx EXCEPT ![c] = k]
    /\ ret' = [ret EXCEPT ![c] = "none"]
    /\ UNCHANGED <<shandle, sdb, spool, mu, held, closeReturned, closeCalls,
                   closeErr, ctorRet, sleaked>>
    /\ UNCHANGED <<mvars, lvars>>

ExecContext(c, k) == Enter(c, "Exec", k)
QueryContext(c, k) == Enter(c, "Query", k)
QueryRowContext(c, k) == Enter(c, "QueryRow", k)
BeginTxContext(c, k) == Enter(c, "BeginTx", k)
\* the wrappers pass context.Background()
Exec(c) == ExecContext(c, "background")
Query(c) == QueryContext(c, "background")
QueryRow(c) == QueryRowContext(c, "background")
BeginTx(c) == BeginTxContext(c, "background")
Close(c) == Enter(c, "Close", "background")

\* s.mu.Lock()
Lock(c) ==
    /\ pc[c] = "lock"
    /\ CanLock(mu)
    /\ mu' = c
    /\ pc' = [pc EXCEPT ![c] = "check"]
    /\ UNCHANGED <<shandle, sdb, spool, held, op, ctx, ret,
                   closeReturned, closeCalls, closeErr, ctorRet, sleaked>>
    /\ UNCHANGED <<mvars, lvars>>

\* the test of s.db: return at once, or go into the driver call on s.db
CheckDb(c) ==
    /\ pc[c] = "check"
    /\ IF Connected(sdb)
         THEN /\ pc' = [pc EXCEPT ![c] = "driver"]
              /\ UNCHANGED ret
         ELSE /\ pc' = [pc EXCEPT ![c] = "unlock"]
              /\ ret' = [ret EXCEPT ![c] = NotConnectedRet(op[c])]
    /\ ctx' = [ctx EXCEPT ![c] = IF Connected(sdb) THEN ctx[c] ELSE "background"]
    /\ UNCHANGED <<shandle, sdb, spool, mu, held, op,
                   closeReturned, closeCalls, closeErr, ctorRet, sleaked>>
    /\ UNCHANGED <<mvars, lvars>>

\* s.db.ExecContext / QueryContext / QueryRowContext / BeginTx return.  The call
\* needs a connection of the pool: while Rows, Row or Tx values keep all
\* SQLiteMaxOpenConns of them checked out, the call waits inside the driver.
DriverReturn(c) ==
    /\ pc[c] = "driver"
    /\ op[c] # "Close"
    /\ \/ /\ spool = "open"
          /\ InUse(held) < SQLiteMaxOpenConns
          /\ \E ok \in BOOLEAN :
                /\ ret' = [ret EXCEPT ![c] = DriverRet(op[c], ok)]
                /\ held' = HeldAfter(c, op[c], ok)
       \/ /\ spool # "open"
          /\ ret' = [ret EXCEPT ![c] = DriverRet(op[c], FALSE)]
          /\ UNCHANGED held
    /\ pc' = [pc EXCEPT ![c] = "unlock"]
    /\ ctx' = [ctx EXCEPT ![c] = "background"]
    /\ UNCHANGED <<shandle, sdb, spool, mu, op,
                   closeReturned, closeCalls, closeErr, ctorRet, sleaked>>
    /\ UNCHANGED <<mvars, lvars>>

\* the context of a context-bearing call is cancelled or runs out while the
\* driver call is under way: the driver call returns the context's error
DriverCancelled(c) ==
    /\ pc[c] = "driver"
    /\ op[c] # "Close"
    /\ ctx[c] = "cancellable"
    /\ ret' = [ret EXCEPT ![c] = DriverRet(op[c], FALSE)]
    /\ pc' = [pc EXCEPT ![c] = "unlock"]
    /\ ctx' = [ctx EXCEPT ![c] = "background"]
    /\ UNCHANGED <<shandle, sdb, spool, mu, held, op,
                   closeReturned, closeCalls, closeErr, ctorRet, sleaked>>
    /\ UNCHANGED <<mvars, lvars>>

\* err := s.db.Close()
DriverClose(c) ==
    /\ pc[c] = "driver"
    /\ op[c] = "Close"
    /\ spool' = "closed"
    /\ closeCalls' = closeCalls + 1
    /\ \E ok \in BOOLEAN :
          /\ ret' = [ret EXCEPT ![c] = DriverRet("Close", ok)]
          /\ closeErr' = IF closeCalls = 0 THEN ~ok ELSE closeErr
    /\ pc' = [pc EXCEPT ![c] = "setnil"]
    /\ UNCHANGED <<shandle, sdb, mu, held, op, ctx,
                   closeReturned, ctorRet, sleaked>>
    /\ UNCHANGED <<mvars, lvars>>

\* s.db = nil; return err
SetNil(c) ==
    /\ pc[c] = "setnil"
    /\ sdb' = DbAfterClose
    /\ pc' = [pc EXCEPT ![c] = "unlock"]
    /\ UNCHANGED <<shandle, spool, mu, held, op, ctx, ret,
                   closeReturned, closeCalls, closeErr, ctorRet, sleaked>>
    /\ UNCHANGED <<mvars, lvars>>

\* defer s.mu.Unlock(), and the method has returned
Unlock(c) ==
    /\ pc[c] = "unlock"
    /\ mu' = Unlocked(mu)
    /\ pc' = [pc EXCEPT ![c] = "idle"]
    /\ op' = [op EXCEPT ![c] = "none"]
    /\ ret' = [ret EXCEPT ![c] = "none"]
    /\ closeReturned' = (closeReturned \/ op[c] = "Close")
    /\ UNCHANGED <<shandle, sdb, spool, held, ctx,
                   closeCalls, closeErr, ctorRet, sleaked>>
    /\ UNCHANGED <<mvars, lvars>>

\* the owner of a returned Tx / Rows / Row finishes it (Commit, Rollback,
\* rows.Close, row.Scan): the connection goes back to the pool.  The owner
\* can do so only between its calls on the handle.
Finish(c) ==
    /\ pc[c] = "idle"
    /\ held = <<c>>
    /\ held' = <<>>
    /\ UNCHANGED <<shandle, sdb, spool, mu, pc, op, ctx, ret,
                   closeReturned, closeCalls, closeErr, ctorRet, sleaked>>
    /\ UNCHANGED <<mvars, lvars>>

CtxKinds == {"background", "cancellable"}

Next ==
    \/ \E a \in BOOLEAN, b \in BOOLEAN, d \in BOOLEAN : NewSQLiteDB(a, b, d)
    \/ \E c \in Callers : Exec(c)
    \/ \E c \in Callers : Query(c)
    \/ \E c \in Callers : QueryRow(c)
    \/ \E c \in Callers : BeginTx(c)
    \/ \E c \in Callers : Close(c)
    \/ \E c \in Callers, k \in CtxKinds : ExecContext(c, k)
    \/ \E c \in Callers, k \in CtxKinds : QueryContext(c, k)
    \/ \E c \in Callers, k \in CtxKinds : QueryRowContext(c, k)
    \/ \E c \in Callers, k \in CtxKinds : BeginTxContext(c, k)
    \/ \E c \in Callers : Lock(c)
    \/ \E c \in Callers : CheckDb(c)
    \/ \E c \in Callers : DriverReturn(c)
    \/ \E c \in Callers : DriverCancelled(c)
    \/ \E c \in Callers : DriverClose(c)
    \/ \E c \in Callers : SetNil(c)
    \/ \E c \in Callers : Unlock(c)
    \/ \E c \in Callers : Finish(c)

Spec == InitState /\ [][Next]_vars

\* the steps of a method past s.mu.Lock(); only the holder of the mutex has one
Step(c) ==
    CheckDb(c) \/ DriverReturn(c) \/ DriverClose(c) \/ SetNil(c) \/ Unlock(c)

\* sync.Mutex hands the lock to a waiter that keeps asking (starvation mode),
\* and the Go scheduler runs every runnable goroutine: each step of a method
\* is taken once it can be.  Nothing obliges a caller to finish a Tx, Rows or
\* Row it was given, to cancel a context, or to make a further call.
Fairness ==
    \A c \in Callers : SF_vars(Lock(c)) /\ WF_vars(Step(c))

LiveSpec == InitState /\ [][Next]_vars /\ Fairness

\* ================================================================= MySqlDB

\* db.SetMaxOpenConns(25)
MySqlMaxOpenConns == 25

\* NewMySqlDB(cfg): the DSN, sql.Open, the pool limits, Ping, the handle.
\* The error return after a failed Ping does not close the sql.DB.
NewMySqlDB(openOk, pingOk) ==
    /\ mhandle = "absent"
    /\ mopens < MaxOpens
    /\ mopens' = mopens + 1
    /\ mlast' = "NewMySqlDB"
    /\ IF ~openOk
         THEN /\ mret' = "openerr"
              /\ UNCHANGED <<mhandle, mdb, mpool, mleaked>>
         ELSE IF ~pingOk
           THEN /\ mret' = "pingerr"
                /\ mleaked' = mleaked + 1
                /\ UNCHANGED <<mhandle, mdb, mpool>>
           ELSE /\ mret' = "ok"
                /\ mhandle' = "present"
                /\ mdb' = Ref
                /\ mpool' = "open"
                /\ UNCHANGED mleaked
    /\ UNCHANGED minUse
    /\ UNCHANGED <<svars, lvars>>

\* (m *MySqlDB) Close: m.db.Close() when m.db is not nil; m.db is left as it is
MySqlClose(ok) ==
    /\ mhandle = "present"
    /\ mlast' = "Close"
    /\ IF mdb # NilRef
         THEN /\ mpool' = "closed"
              /\ mret' = IF ok \/ mpool = "closed" THEN "ok" ELSE "err"
         ELSE /\ mret' = "ok"
              /\ UNCHANGED mpool
    /\ UNCHANGED <<mhandle, mdb, minUse, mleaked, mopens>>
    /\ UNCHANGED <<svars, lvars>>

\* a call through m.db that takes a connection for its duration and gives it
\* back: Ping, Exec, Prepare.  With every connection checked out it waits.
MySqlCall(name, ok, okRet, errRet) ==
    /\ mhandle = "present"
    /\ mpool = "closed" \/ minUse < MySqlMaxOpenConns
    /\ mlast' = name
    /\ mret' = IF mpool = "open" /\ ok THEN okRet ELSE errRet
    /\ UNCHANGED <<mhandle, mdb, mpool, minUse, mleaked, mopens>>
    /\ UNCHANGED <<svars, lvars>>

\* a call through m.db whose result keeps the connection: Query, QueryRow, Begin
MySqlCheckout(name, ok, okRet, errRet) ==
    /\ mhandle = "present"
    /\ mpool = "closed" \/ minUse < MySqlMaxOpenConns
    /\ mlast' = name
    /\ IF mpool = "open" /\ ok
         THEN /\ mret' = okRet
              /\ minUse' = minUse + 1
         ELSE /\ mret' = errRet
              /\ UNCHANGED minUse
    /\ UNCHANGED <<mhandle, mdb, mpool, mleaked, mopens>>
    /\ UNCHANGED <<svars, lvars>>

MySqlPing(ok) == MySqlCall("Ping", ok, "ok", "err")
\* Exec wraps the execute error and the RowsAffected error apart
MySqlExec(ok, rowsOk) ==
    MySqlCall("Exec", ok, IF rowsOk THEN "ok" ELSE "rowserr", "execerr")
MySqlPrepare(ok) == MySqlCall("Prepare", ok, "ok", "err")
MySqlQuery(ok) == MySqlCheckout("Query", ok, "ok", "err")
MySqlQueryRow(ok) == MySqlCheckout("QueryRow", ok, "row", "rowerr")
MySqlBeginTransaction(ok) == MySqlCheckout("BeginTransaction", ok, "ok", "err")

\* a caller finishes a Rows, Row or Tx: its connection goes back to the pool
MySqlFinish ==
    /\ minUse > 0
    /\ minUse' = minUse - 1
    /\ UNCHANGED <<mhandle, mdb, mpool, mlast, mret, mleaked, mopens>>
    /\ UNCHANGED <<svars, lvars>>

MyNext ==
    \/ \E a \in BOOLEAN, b \in BOOLEAN : NewMySqlDB(a, b)
    \/ \E ok \in BOOLEAN : MySqlClose(ok)
    \/ \E ok \in BOOLEAN : MySqlPing(ok)
    \/ \E ok \in BOOLEAN, r \in BOOLEAN : MySqlExec(ok, r)
    \/ \E ok \in BOOLEAN : MySqlPrepare(ok)
    \/ \E ok \in BOOLEAN : MySqlQuery(ok)
    \/ \E ok \in BOOLEAN : MySqlQueryRow(ok)
    \/ \E ok \in BOOLEAN : MySqlBeginTransaction(ok)
    \/ MySqlFinish

MySpec == InitState /\ [][MyNext]_vars

\* ================================================================== logger

\* the LogLevel constants of the package, and level strings that are none of them
KnownLevels == {"debug", "info", "warn", "error", "panic", "fatal"}
LevelStrings == KnownLevels \cup {"", "trace"}

\* zapcore's levels in rising severity; InvalidLevel lies outside them
ZapLevels == <<"DebugLevel", "InfoLevel", "WarnLevel", "ErrorLevel",
               "DPanicLevel", "PanicLevel", "FatalLevel">>
InvalidLevel == "InvalidLevel"
Rank(z) == CHOOSE i \in 1..Len(ZapLevels) : ZapLevels[i] = z

\* the severities of the leveled calls Debug .. Fatal (and their f variants)
Severities == {"DebugLevel", "InfoLevel", "WarnLevel", "ErrorLevel",
               "PanicLevel", "FatalLevel"}

\* variant: the default branch falls to DebugLevel
mapLogLevelDefaultDebug(level) ==
    CASE level = "debug" -> "DebugLevel"
      [] level = "info"  -> "InfoLevel"
      [] level = "warn"  -> "WarnLevel"
      [] level = "error" -> "ErrorLevel"
      [] level = "panic" -> "PanicLevel"
      [] level = "fatal" -> "FatalLevel"
      [] OTHER           -> "DebugLevel"

\* mapLogLevel: the six LogLevel constants, and InfoLevel by default
mapLogLevel(level) ==
    CASE level = "debug" -> "DebugLevel"
      [] level = "info"  -> "InfoLevel"
      [] level = "warn"  -> "WarnLevel"
      [] level = "error" -> "ErrorLevel"
      [] level = "panic" -> "PanicLevel"
      [] level = "fatal" -> "FatalLevel"
      [] OTHER           -> "InfoLevel"

\* zapcore.Level.Enabled: a core at level min takes a record of severity sev
Enabled(min, sev) == Rank(sev) >= Rank(min)

\* Config as far as Init reads it: Level, Filename # "", Console
Configs == [level : LevelStrings, file : BOOLEAN, console : BOOLEAN]

\* the Config that Logger() passes to Init
DefaultConfig == [level |-> "info", file |-> TRUE, console |-> TRUE]

\* the logger zap.New builds over the tee of the file core and the console core
NewInstance(cfg, id) ==
    LET logLevel == IF mapLogLevel(cfg.level) = InvalidLevel
                      THEN "InfoLevel"
                      ELSE mapLogLevel(cfg.level)
    IN  [id |-> id, min |-> logLevel, file |-> cfg.file,
         console |-> cfg.console, level |-> cfg.level]

\* variant: a failing Init clears globalLogger
InitClobber(g, cfg, mkdirOk, id) ==
    IF cfg.file /\ ~mkdirOk
      THEN [err |-> TRUE, g |-> NilLogger]
      ELSE [err |-> FALSE, g |-> NewInstance(cfg, id)]

\* Init(cfg) as a function of globalLogger g: the error and the new globalLogger.
\* os.MkdirAll runs only for a non-empty Filename.
Init(g, cfg, mkdirOk, id) ==
    IF cfg.file /\ ~mkdirOk
      THEN [err |-> TRUE, g |-> g]
      ELSE [err |-> FALSE, g |-> NewInstance(cfg, id)]

\* variant: Logger() runs Init on every call
NeedsInitAlways(g) == TRUE
\* `globalLogger == nil` in Logger()
NeedsInit(g) == g = NilLogger

\* Logger() as a function of globalLogger g: what it returns, the new
\* globalLogger, whether it ran Init and whether that Init failed
Logger(g, mkdirOk, id) ==
    IF NeedsInit(g)
      THEN LET r == Init(g, DefaultConfig, mkdirOk, id)
           IN  IF r.err
                 THEN [ret |-> NilLogger, g |-> r.g, lazy |-> TRUE, err |-> TRUE]
                 ELSE [ret |-> r.g, g |-> r.g, lazy |-> TRUE, err |-> FALSE]
      ELSE [ret |-> g, g |-> g, lazy |-> FALSE, err |-> FALSE]

\* the sinks of an instance that take a record of severity sev
SinksTaking(inst, sev) ==
    {k \in {"file", "console"} :
        /\ (k = "file" => inst.file)
        /\ (k = "console" => inst.console)
        /\ Enabled(inst.min, sev)}

\* how a leveled call on a non-nil instance ends: Panic panics after the
\* write, Fatal ends the process after the write
EndOf(sev) ==
    CASE sev = "PanicLevel" -> "panic"
      [] sev = "FatalLevel" -> "exit"
      [] OTHER              -> "returned"

\* a call of Init(cfg) by the application
CallInit(cfg, mkdirOk) ==
    /\ outcome # "exit"
    /\ nextId <= MaxInstances
    /\ LET r == Init(globalLogger, cfg, mkdirOk, nextId)
       IN  /\ globalLogger' = r.g
           /\ lastErr' = r.err
           /\ nextId' = IF r.err THEN nextId ELSE nextId + 1
    /\ lastOp' = "Init"
    /\ lastRet' = NilLogger
    /\ lastLazy' = FALSE
    /\ lastSev' = "none"
    /\ lastSinks' = {}
    /\ outcome' = "returned"
    /\ UNCHANGED <<svars, mvars>>

\* a call of Logger() by the application
CallLogger(mkdirOk) ==
    /\ outcome # "exit"
    /\ ~NeedsInit(globalLogger) \/ nextId <= MaxInstances
    /\ LET r == Logger(globalLogger, mkdirOk, nextId)
       IN  /\ globalLogger' = r.g
           /\ lastRet' = r.ret
           /\ lastLazy' = r.lazy
           /\ lastErr' = r.err
           /\ nextId' = IF r.lazy /\ ~r.err THEN nextId + 1 ELSE nextId
    /\ lastOp' = "Logger"
    /\ lastSev' = "none"
    /\ lastSinks' = {}
    /\ outcome' = "returned"
    /\ UNCHANGED <<svars, mvars>>

\* a leveled call Debug .. Fatalf: Logger().<level>(args...).  On a nil
\* *zap.SugaredLogger the call dereferences nil.
Log(sev, mkdirOk) ==
    /\ outcome # "exit"
    /\ ~NeedsInit(globalLogger) \/ nextId <= MaxInstances
    /\ LET r == Logger(globalLogger, mkdirOk, nextId)
       IN  /\ globalLogger' = r.g
           /\ lastRet' = r.ret
           /\ lastLazy' = r.lazy
           /\ lastErr' = r.err
           /\ nextId' = IF r.lazy /\ ~r.err THEN nextId + 1 ELSE nextId
           /\ IF r.ret = NilLogger
                THEN /\ lastSinks' = {}
                     /\ outcome' = "nilpanic"
                ELSE /\ lastSinks' = SinksTaking(r.ret, sev)
                     /\ outcome' = EndOf(sev)
    /\ lastOp' = "Log"
    /\ lastSev' = sev
    /\ UNCHANGED <<svars, mvars>>

LogNext ==
    \/ \E cfg \in Configs, m \in BOOLEAN : CallInit(cfg, m)
    \/ \E m \in BOOLEAN : CallLogger(m)
    \/ \E sev \in Severities, m \in BOOLEAN : Log(sev, m)

LogSpec == InitState /\ [][LogNext]_vars

\* ---------------------------------------------------------------- claims

InDriver == {c \in Callers : pc[c] = "driver"}

\* C1: at most one caller is inside a driver call on s.db at any time, so the
\* driver calls made through one SQLiteDB are totally ordered.
C1_DriverCallsSerialized == Cardinality(InDriver) <= 1

\* one caller is inside the driver call while another waits at s.mu.Lock()
C1_Witness ==
    \E c \in Callers, d \in Callers :
        c # d /\ pc[c] = "driver" /\ pc[d] = "lock" /\ mu = c

ExecQueryBegin == {"Exec", "Query", "BeginTx"}

\* C2: once a Close has returned, a call of Exec/ExecContext,
\* Query/QueryContext or BeginTx/BeginTxContext never reaches the driver and
\* returns the not-connected error (it does not panic).
C2_NotConnectedAfterClose ==
    closeReturned =>
        \A c \in Callers :
            op[c] \in ExecQueryBegin =>
                /\ pc[c] # "driver"
                /\ (pc[c] = "unlock" => ret[c] = "notconnected")

\* after a Close has returned, an Exec, a Query and a BeginTx have each been
\* answered with the not-connected error
C2_Witness ==
    /\ closeReturned
    /\ \E c \in Callers :
          pc[c] = "unlock" /\ op[c] \in ExecQueryBegin /\ ret[c] = "notconnected"

\* C3: on a closed handle every operation, QueryRow and QueryRowContext
\* included, returns the not-connected error to its caller.
C3_EveryOperationReportsNotConnected ==
    closeReturned =>
        \A c \in Callers :
            (pc[c] = "unlock" /\ op[c] # "Close") => ret[c] = "notconnected"

\* C4: a Close after the first one returns no error, does not call the
\* driver's Close again and leaves the handle closed, whatever the first
\* Close returned.
C4_CloseIdempotent ==
    /\ closeCalls <= 1
    /\ closeReturned =>
          /\ sdb = NilRef
          /\ spool = "closed"
          /\ \A c \in Callers :
                op[c] = "Close" =>
                    /\ pc[c] \notin {"driver", "setnil"}
                    /\ (pc[c] = "unlock" => ret[c] = "ok")

\* the first Close returned an error and a later Close is returning nil
C4_Witness ==
    /\ closeReturned
    /\ closeErr
    /\ \E c \in Callers : op[c] = "Close" /\ pc[c] = "unlock" /\ ret[c] = "ok"

\* C6: when NewSQLiteDB fails after sql.Open succeeded (Ping or the PRAGMA
\* failed), the sql.DB it opened has been released when it returns.
C6_FailedOpenLeavesNothing ==
    ctorRet \in {"pingerr", "pragmaerr"} => sleaked = 0

\* some call waits inside the driver for a connection while Rows, Row or Tx
\* values keep every connection of the pool checked out
ConnWait ==
    \E d \in Callers :
        pc[d] = "driver" /\ op[d] # "Close" /\ InUse(held) >= SQLiteMaxOpenConns

\* C9 as claimed: every call made with a never-cancelled context eventually
\* returns (and has then released the mutex).
C9_EveryCallReturns ==
    \A c \in Callers :
        (pc[c] # "idle" /\ ctx[c] = "background") ~> (pc[c] = "idle" /\ mu # c)

\* C9 as amended: every call eventually returns, unless a call comes to wait
\* inside the driver for the connection that an unfinished Tx, Rows or Row
\* keeps checked out.
C9_ReturnsUnlessConnectionHeld ==
    \A c \in Callers :
        (pc[c] # "idle") ~> ((pc[c] = "idle" /\ mu # c) \/ ConnWait)

\* a caller that has not finished the Tx / Rows / Row it was given waits at
\* s.mu.Lock() behind a call that waits inside the driver for that connection
C9_Witness ==
    \E c \in Callers, d \in Callers :
        /\ c # d
        /\ pc[c] = "lock"
        /\ pc[d] = "driver" /\ mu = d /\ op[d] # "Close"
        /\ held = <<c>>

\* the two halves of C5
SQLiteOpenOrClosed ==
    (shandle = "present" /\ mu = NoCaller) => (sdb = NilRef \/ spool = "open")

MySqlOpenOrClosed ==
    mhandle = "present" => (mdb = NilRef \/ mpool = "open")

\* C5: a handle of either variant is fully open (non-nil reference to a live
\* sql.DB) or fully closed (nil reference); the reference is never non-nil
\* with the sql.DB behind it released.
C5_OpenOrClosed == SQLiteOpenOrClosed /\ MySqlOpenOrClosed

\* the level strings of the configuration in rising severity
LevelOrder == <<"debug", "info", "warn", "error", "panic", "fatal">>
LevelRank(l) == CHOOSE i \in 1..Len(LevelOrder) : LevelOrder[i] = l

\* the level string a severity goes by
SevString(z) ==
    CASE z = "DebugLevel" -> "debug"
      [] z = "InfoLevel"  -> "info"
      [] z = "WarnLevel"  -> "warn"
      [] z = "ErrorLevel" -> "error"
      [] z = "PanicLevel" -> "panic"
      [] z = "FatalLevel" -> "fatal"

\* the minimum level the facade is to apply for a configured level string
EffectiveLevel(l) == IF l \in KnownLevels THEN l ELSE "info"

\* C7: a leveled call writes a record to a sink only if the sink is configured
\* and the record's severity is at least the effective minimum level of the
\* installed instance: the configured level when it is one of debug, info,
\* warn, error, panic, fatal, and info for any other level string.
C7_LevelFilter ==
    (lastOp = "Log" /\ globalLogger # NilLogger) =>
        \A k \in lastSinks :
            /\ LevelRank(SevString(lastSev)) >=
                   LevelRank(EffectiveLevel(globalLogger.level))
            /\ (k = "file" => globalLogger.file)
            /\ (k = "console" => globalLogger.console)

\* an Info call on a facade initialized at warn with both sinks wrote nothing
C7_Witness ==
    /\ lastOp = "Log"
    /\ globalLogger # NilLogger
    /\ globalLogger.level = "warn"
    /\ globalLogger.file /\ globalLogger.console
    /\ lastSev = "InfoLevel"
    /\ lastSinks = {}

\* C8: Logger() returns the current globalLogger; it runs the default Init
\* only when globalLogger is nil and leaves an existing instance in place;
\* a successful Init puts a newly built instance in the place of the previous
\* one, so the current instance is always the one built last.
C8_LoggerReturnsCurrent ==
    [][ /\ (lastOp' = "Logger" =>
              /\ lastRet' = globalLogger'
              /\ (lastLazy' => globalLogger = NilLogger)
              /\ (globalLogger # NilLogger =>
                     globalLogger' = globalLogger /\ nextId' = nextId))
        /\ ((lastOp' = "Init" /\ ~lastErr') =>
              /\ globalLogger'.id = nextId
              /\ globalLogger' # globalLogger
              /\ nextId' = nextId + 1)
        /\ (globalLogger' # NilLogger => globalLogger'.id = nextId' - 1)
      ]_lvars

\* Logger(), called after two successful Inits, returned the second instance
\* without running Init
C8_Witness ==
    /\ lastOp = "Logger"
    /\ ~lastLazy
    /\ lastRet # NilLogger
    /\ lastRet.id = 2
    /\ lastRet = globalLogger

\* C10: an Init that fails leaves globalLogger as it was; Logger() on a nil
\* globalLogger always runs the default Init, and when that fails it returns
\* nil and globalLogger stays nil.
C10_FailedInitKeepsInstance ==
    [][ /\ ((lastOp' = "Init" /\ lastErr') =>
              globalLogger' = globalLogger /\ nextId' = nextId)
        /\ ((lastOp' = "Logger" /\ globalLogger = NilLogger) =>
              /\ lastLazy'
              /\ (lastErr' =>
                     /\ lastRet' = NilLogger
                     /\ globalLogger' = NilLogger
                     /\ nextId' = nextId))
      ]_lvars

\* an Init failed while an instance was installed, and the instance is still there
C10_Witness ==
    /\ lastOp = "Init"
    /\ lastErr
    /\ globalLogger # NilLogger

====
